---------------------------- MODULE Spec2Model ----------------------------
(***************************************************************************)
(* Model of Tools/mql5_linting/mql5_mock.h: the MQL5 mock header that lets *)
(* C++ linters parse MQL5 scripts.  The header holds two type aliases,     *)
(* three storage-class macros, four integer constants and seven inline     *)
(* stub functions.                                                         *)
(*                                                                         *)
(* Spec      a script that includes the header and calls the stubs in any  *)
(*           order with any arguments.                                     *)
(* SpecPair  two such scripts run side by side, issuing the same stub      *)
(*           names with independently chosen arguments.                    *)
(* SpecPP    the preprocessor replacing the header's macros in a line of   *)
(*           a script.                                                     *)
(* SpecTypes a script computing with a color and a datetime variable.      *)
(*           An integer is held as its bits, least significant first.      *)
(* SpecLint  a linter resolving the references of a corpus of scripts      *)
(*           against the header's declarations.                            *)
(*                                                                         *)
(* Values carry their C++ type: [t |-> "bool", v |-> TRUE].  A double is   *)
(* held as its value in units of 0.00001 (0.0 is 0, 1.0 is 100000).        *)
(***************************************************************************)
EXTENDS Integers, Sequences, FiniteSets, TLC

VARIABLES
    script,     \* the including script's own objects: symbol, msg, tf
    calls,      \* the stub calls made so far: <<[fn, ret]>>
    lastArgs,   \* the argument list of the latest call
    names,      \* SpecPair: the stub names issued so far
    retsA,      \* SpecPair: what run A's calls returned
    retsB,      \* SpecPair: what run B's calls returned
    differed,   \* SpecPair: per call, whether A's and B's arguments differed
    source,     \* SpecPP: the tokens of a script line as written
    expanded,   \* SpecPP: the tokens after macro replacement
    ppc,        \* SpecPP: "source" before preprocessing, "expanded" after
    clr,        \* SpecTypes: a script's color variable, as its bits
    dt,         \* SpecTypes: a script's datetime variable, as its bits
    clrRef,     \* SpecTypes: the value clr should hold, as two 16-bit halves
    dtRef,      \* SpecTypes: the value dt should hold: [base, off]
    tpc,        \* SpecTypes: "run", or "wrapped"/"trapped" after an overflow
    ops,        \* SpecTypes: the number of statements executed
    linted,     \* SpecLint: the references the linter has analysed
    diags       \* SpecLint: the diagnostics it has emitted

vars == <<script, calls, lastArgs, names, retsA, retsB, differed,
          source, expanded, ppc, clr, dt, clrRef, dtRef, tpc, ops,
          linted, diags>>
runVars == <<script, calls, lastArgs>>
pairVars == <<names, retsA, retsB, differed>>
ppVars == <<source, expanded, ppc>>
typeVars == <<clr, dt, clrRef, dtRef, tpc, ops>>
lintVars == <<linted, diags>>

\* The longest call history a script of Spec makes.
MaxCalls == 3
\* The longest call history of the two runs of SpecPair.
MaxPairCalls == 2
\* The longest script line SpecPP preprocesses, in tokens.
MaxTokens == 3
\* The most statements a script of SpecTypes executes.
MaxOps == 4

----------------------------------------------------------------------------
\* Typed C++ values.
BoolVal(b) == [t |-> "bool", v |-> b]
IntVal(n) == [t |-> "int", v |-> n]
DoubleVal(x) == [t |-> "double", v |-> x]
VoidVal == [t |-> "void", v |-> 0]

----------------------------------------------------------------------------
\* <cstdint>: the fixed-width integer types the aliases name.
int64_t == [signed |-> TRUE, bits |-> 64]
uint32_t == [signed |-> FALSE, bits |-> 32]

\* MQL5 Basic Types (typedef).
\* Faulty variant: a 32-bit datetime.
datetime_Narrow == [signed |-> TRUE, bits |-> 32]
datetime == int64_t
color == uint32_t

----------------------------------------------------------------------------
\* MQL5 Storage Classes (#define): each macro's replacement list.
input == << >>
sinput == <<"static">>
\* Faulty variant: extern left in place.
extern_Kept == <<"extern">>
extern == << >>

----------------------------------------------------------------------------
\* MQL5 Common Constants (#define).
PERIOD_CURRENT == 0
\* Faulty variant: the period in seconds.
PERIOD_M1_Seconds == 59 + 1
PERIOD_M1 == 1
OP_BUY == 0
\* Faulty variant: both directions share one value.
OP_SELL_Aliased == OP_BUY
OP_SELL == 1

----------------------------------------------------------------------------
\* MQL5 Built-in Functions (Mock).  Each stub yields its return value and
\* the objects it was handed by reference as they are when it returns.

\* Faulty variant: the result follows the property asked for.
SymbolInfoDouble_Quoting(symbol, prop_id) ==
    [ret |-> DoubleVal(prop_id), symbol |-> symbol]
SymbolInfoDouble(symbol, prop_id) ==
    [ret |-> DoubleVal(0), symbol |-> symbol]

\* Faulty variants: an order is refused when its stop is not below its
\* price; when its volume is not positive; the symbol is rewritten.
OrderSend_CheckingStops(symbol, cmd, volume, price, slippage, stoploss, takeprofit) ==
    [ret |-> BoolVal(stoploss < price), symbol |-> symbol]
OrderSend_Validating(symbol, cmd, volume, price, slippage, stoploss, takeprofit) ==
    [ret |-> BoolVal(volume > 0), symbol |-> symbol]
OrderSend_Normalising(symbol, cmd, volume, price, slippage, stoploss, takeprofit) ==
    [ret |-> BoolVal(TRUE), symbol |-> "EURUSD"]
OrderSend(symbol, cmd, volume, price, slippage, stoploss, takeprofit) ==
    [ret |-> BoolVal(TRUE), symbol |-> symbol]

Print_(msg) ==
    [ret |-> VoidVal, msg |-> msg]

\* Faulty variant: an error code is left behind by OrderSend.
GetLastError_AfterTrade ==
    [ret |-> IntVal(IF \E i \in DOMAIN calls : calls[i].fn = "OrderSend" THEN 1 ELSE 0)]
GetLastError ==
    [ret |-> IntVal(0)]

\* Event Handlers.
OnInit ==
    [ret |-> IntVal(0)]
OnDeinit(reason) ==
    [ret |-> VoidVal]
OnTick ==
    [ret |-> VoidVal]

----------------------------------------------------------------------------
\* The arguments a script passes.
Symbols == {"EURUSD", "GBPUSD"}
Msgs == {"", "tick"}
Timeframes == {PERIOD_CURRENT, PERIOD_M1}
PropIds == {1, 4}
Cmds == {OP_BUY, OP_SELL}
Volumes == {0, 100000}
Prices == {0, 110000}
Slippages == {0, 3}
StopLosses == {0, 109000}
TakeProfits == {0, 111000}
Reasons == {0, 1}

Scripts == [symbol : Symbols, msg : Msgs, tf : Timeframes]

Record(fn, ret) == [fn |-> fn, ret |-> ret]

----------------------------------------------------------------------------
\* Spec: one script calling the stubs.

IdlePair ==
    /\ names = << >>
    /\ retsA = << >>
    /\ retsB = << >>
    /\ differed = << >>

IdlePP ==
    /\ source = << >>
    /\ expanded = << >>
    /\ ppc = "source"

IdleTypes ==
    /\ clr = << >>
    /\ dt = << >>
    /\ clrRef = [hi |-> 0, lo |-> 0]
    /\ dtRef = [base |-> "zero", off |-> 0]
    /\ tpc = "run"
    /\ ops = 0

IdleLint ==
    /\ linted = {}
    /\ diags = {}

Init ==
    /\ script \in Scripts
    /\ calls = << >>
    /\ lastArgs = << >>
    /\ IdlePair
    /\ IdlePP
    /\ IdleTypes
    /\ IdleLint

CallSymbolInfoDouble ==
    /\ Len(calls) < MaxCalls
    /\ \E prop_id \in PropIds :
         LET r == SymbolInfoDouble(script.symbol, prop_id) IN
         /\ calls' = Append(calls, Record("SymbolInfoDouble", r.ret))
         /\ lastArgs' = <<script.symbol, prop_id>>
         /\ script' = [script EXCEPT !.symbol = r.symbol]
    /\ UNCHANGED <<pairVars, ppVars, typeVars, lintVars>>

CallOrderSend ==
    /\ Len(calls) < MaxCalls
    /\ \E cmd \in Cmds, volume \in Volumes, price \in Prices,
          slippage \in Slippages, stoploss \in StopLosses,
          takeprofit \in TakeProfits :
         LET r == OrderSend(script.symbol, cmd, volume, price, slippage,
                            stoploss, takeprofit) IN
         /\ calls' = Append(calls, Record("OrderSend", r.ret))
         /\ lastArgs' = <<script.symbol, cmd, volume, price, slippage,
                          stoploss, takeprofit>>
         /\ script' = [script EXCEPT !.symbol = r.symbol]
    /\ UNCHANGED <<pairVars, ppVars, typeVars, lintVars>>

CallPrint ==
    /\ Len(calls) < MaxCalls
    /\ LET r == Print_(script.msg) IN
         /\ calls' = Append(calls, Record("Print", r.ret))
         /\ lastArgs' = <<script.msg>>
         /\ script' = [script EXCEPT !.msg = r.msg]
    /\ UNCHANGED <<pairVars, ppVars, typeVars, lintVars>>

CallGetLastError ==
    /\ Len(calls) < MaxCalls
    /\ calls' = Append(calls, Record("GetLastError", GetLastError.ret))
    /\ lastArgs' = << >>
    /\ UNCHANGED <<script, pairVars, ppVars, typeVars, lintVars>>

CallOnInit ==
    /\ Len(calls) < MaxCalls
    /\ calls' = Append(calls, Record("OnInit", OnInit.ret))
    /\ lastArgs' = << >>
    /\ UNCHANGED <<script, pairVars, ppVars, typeVars, lintVars>>

CallOnDeinit ==
    /\ Len(calls) < MaxCalls
    /\ \E reason \in Reasons :
         /\ calls' = Append(calls, Record("OnDeinit", OnDeinit(reason).ret))
         /\ lastArgs' = <<reason>>
    /\ UNCHANGED <<script, pairVars, ppVars, typeVars, lintVars>>

CallOnTick ==
    /\ Len(calls) < MaxCalls
    /\ calls' = Append(calls, Record("OnTick", OnTick.ret))
    /\ lastArgs' = << >>
    /\ UNCHANGED <<script, pairVars, ppVars, typeVars, lintVars>>

Next ==
    \/ CallSymbolInfoDouble
    \/ CallOrderSend
    \/ CallPrint
    \/ CallGetLastError
    \/ CallOnInit
    \/ CallOnDeinit
    \/ CallOnTick

Spec == Init /\ [][Next]_vars

----------------------------------------------------------------------------
\* SpecPair: two runs issue the same stub names, each with arguments of its
\* own choosing.

StubNames == {"SymbolInfoDouble", "OrderSend", "Print", "GetLastError",
              "OnInit", "OnDeinit", "OnTick"}

\* The argument lists a script can pass to stub fn.
ArgLists(fn) ==
    CASE fn = "SymbolInfoDouble" -> Symbols \X PropIds
      [] fn = "OrderSend" -> Symbols \X Cmds \X Volumes \X Prices \X Slippages
                             \X StopLosses \X TakeProfits
      [] fn = "Print" -> {<<m>> : m \in Msgs}
      [] fn = "OnDeinit" -> {<<r>> : r \in Reasons}
      [] OTHER -> {<< >>}

\* What the call fn(a) returns.
RetOf(fn, a) ==
    CASE fn = "SymbolInfoDouble" -> SymbolInfoDouble(a[1], a[2]).ret
      [] fn = "OrderSend" -> OrderSend(a[1], a[2], a[3], a[4], a[5], a[6], a[7]).ret
      [] fn = "Print" -> Print_(a[1]).ret
      [] fn = "GetLastError" -> GetLastError.ret
      [] fn = "OnInit" -> OnInit.ret
      [] fn = "OnDeinit" -> OnDeinit(a[1]).ret
      [] fn = "OnTick" -> OnTick.ret

IdleRun ==
    /\ script = [symbol |-> "EURUSD", msg |-> "", tf |-> PERIOD_CURRENT]
    /\ calls = << >>
    /\ lastArgs = << >>

InitPair ==
    /\ names = << >>
    /\ retsA = << >>
    /\ retsB = << >>
    /\ differed = << >>
    /\ IdleRun
    /\ IdlePP
    /\ IdleTypes
    /\ IdleLint

PairCall(fn) ==
    /\ Len(names) < MaxPairCalls
    /\ \E a \in ArgLists(fn), b \in ArgLists(fn) :
         /\ names' = Append(names, fn)
         /\ retsA' = Append(retsA, RetOf(fn, a))
         /\ retsB' = Append(retsB, RetOf(fn, b))
         /\ differed' = Append(differed, a # b)
    /\ UNCHANGED <<runVars, ppVars, typeVars, lintVars>>

NextPair == \E fn \in StubNames : PairCall(fn)

SpecPair == InitPair /\ [][NextPair]_vars

----------------------------------------------------------------------------
\* SpecPP: the preprocessor on one line of a script that includes the header.

\* The object-like macros the header defines.
MacroNames == {"input", "sinput", "extern",
               "PERIOD_CURRENT", "PERIOD_M1", "OP_BUY", "OP_SELL"}

Replacement(name) ==
    CASE name = "input" -> input
      [] name = "sinput" -> sinput
      [] name = "extern" -> extern
      [] name = "PERIOD_CURRENT" -> <<ToString(PERIOD_CURRENT)>>
      [] name = "PERIOD_M1" -> <<ToString(PERIOD_M1)>>
      [] name = "OP_BUY" -> <<ToString(OP_BUY)>>
      [] name = "OP_SELL" -> <<ToString(OP_SELL)>>

\* Macro replacement with rescanning: an identifier that names a macro is
\* replaced by the macro's replacement list, which is scanned again with
\* that macro's name no longer replaced; any other token is kept.
RECURSIVE ExpandSeq(_, _)
ExpandSeq(toks, hide) ==
    IF toks = << >> THEN << >>
    ELSE LET tok == Head(toks) IN
         (IF tok \in MacroNames \ hide
            THEN ExpandSeq(Replacement(tok), hide \cup {tok})
            ELSE <<tok>>)
         \o ExpandSeq(Tail(toks), hide)

Preprocess(toks) == ExpandSeq(toks, {})

\* The tokens of a script line: the three storage-class keywords, a
\* constant, C++ tokens, and a string literal spelling a keyword.
Tokens == {"input", "sinput", "extern", "OP_SELL", "static", "int", "x",
           "\"input\""}

RECURSIVE SeqsUpTo(_, _)
SeqsUpTo(S, n) ==
    IF n = 0 THEN {<< >>}
    ELSE LET shorter == SeqsUpTo(S, n - 1) IN
         shorter \cup {Append(q, t) : q \in shorter, t \in S}

InitPP ==
    /\ source \in SeqsUpTo(Tokens, MaxTokens)
    /\ expanded = << >>
    /\ ppc = "source"
    /\ IdleRun
    /\ IdlePair
    /\ IdleTypes
    /\ IdleLint

PreprocessLine ==
    /\ ppc = "source"
    /\ expanded' = Preprocess(source)
    /\ ppc' = "expanded"
    /\ UNCHANGED <<source, runVars, pairVars, typeVars, lintVars>>

NextPP == PreprocessLine

SpecPP == InitPP /\ [][NextPP]_vars

----------------------------------------------------------------------------
\* SpecTypes: a script declares `color clr = 0; datetime dt = 0;` and
\* computes with them.  A value of integer type t is the function from
\* 1..t.bits to {0, 1} of its bits in two's complement, bit 1 the least
\* significant.

\* The conversion to type t of the non-negative integer whose set bits are
\* at the positions S (counted from 0): bits beyond the width are dropped.
Conv(t, S) == [i \in 1..t.bits |-> IF (i - 1) \in S THEN 1 ELSE 0]

RECURSIVE CarryIn(_, _, _)
CarryIn(a, b, i) ==
    IF i = 1 THEN 0
    ELSE (a[i - 1] + b[i - 1] + CarryIn(a, b, i - 1)) \div 2

\* a + b in type t: the carry out of the top bit is lost.
Add(t, a, b) == [i \in 1..t.bits |-> (a[i] + b[i] + CarryIn(a, b, i)) % 2]

\* a + b overflows t: only a signed type overflows, when both operands have
\* one sign and the sum has the other.
Overflows(t, a, b) ==
    /\ t.signed
    /\ a[t.bits] = b[t.bits]
    /\ Add(t, a, b)[t.bits] # a[t.bits]

\* a < 0 in type t.
IsNegative(t, a) == t.signed /\ a[t.bits] = 1

\* Integer literals of a script, as the positions of their set bits:
\* 1, 0x10000, 0x80000000, 0xFFFFFFFF.
ColorLiterals == {{0}, {16}, {31}, 0..31}
\* 0, INT64_MAX, INT64_MIN.
DatetimeLiterals ==
    [zero |-> {}, max |-> 0..(datetime.bits - 2), min |-> {datetime.bits - 1}]
DatetimeBases == {"zero", "max", "min"}

\* Reference arithmetic, kept beside the bits to compare them with: the
\* value of the 16 bits of the literal S from position base on.
RECURSIVE HalfOfLiteral(_, _, _)
HalfOfLiteral(S, base, j) ==
    IF j = 16 THEN 0
    ELSE (IF base + j \in S THEN 2^j ELSE 0) + HalfOfLiteral(S, base, j + 1)

\* r + k modulo 2^32, on 16-bit halves.
RefAdd(r, S) ==
    LET lo == r.lo + HalfOfLiteral(S, 0, 0)
        hi == r.hi + HalfOfLiteral(S, 16, 0) + lo \div 2^16
    IN  [hi |-> hi % 2^16, lo |-> lo % 2^16]

InitTypes ==
    /\ clr = Conv(color, {})
    /\ dt = Conv(datetime, {})
    /\ clrRef = [hi |-> 0, lo |-> 0]
    /\ dtRef = [base |-> "zero", off |-> 0]
    /\ tpc = "run"
    /\ ops = 0
    /\ IdleRun
    /\ IdlePair
    /\ IdlePP
    /\ IdleLint

\* clr = clr + k;
ColorAdd ==
    /\ tpc = "run" /\ ops < MaxOps
    /\ \E k \in ColorLiterals :
         /\ clr' = Add(color, clr, Conv(color, k))
         /\ clrRef' = RefAdd(clrRef, k)
    /\ ops' = ops + 1
    /\ UNCHANGED <<dt, dtRef, tpc, runVars, pairVars, ppVars, lintVars>>

\* dt = 0;  dt = INT64_MAX;  dt = INT64_MIN;
DatetimeAssign ==
    /\ tpc = "run" /\ ops < MaxOps
    /\ \E b \in DatetimeBases :
         /\ dt' = Conv(datetime, DatetimeLiterals[b])
         /\ dtRef' = [base |-> b, off |-> 0]
    /\ ops' = ops + 1
    /\ UNCHANGED <<clr, clrRef, tpc, runVars, pairVars, ppVars, lintVars>>

\* dt = dt + k, k being 1 or -1.  A signed overflow is undefined: the build
\* either wraps the sum or traps, and the script's run ends there.
DatetimeStep(k, d) ==
    /\ tpc = "run" /\ ops < MaxOps
    /\ dtRef' = [dtRef EXCEPT !.off = @ + d]
    /\ IF Overflows(datetime, dt, k)
         THEN \/ dt' = Add(datetime, dt, k) /\ tpc' = "wrapped"
              \/ dt' = dt /\ tpc' = "trapped"
         ELSE dt' = Add(datetime, dt, k) /\ tpc' = tpc
    /\ ops' = ops + 1
    /\ UNCHANGED <<clr, clrRef, runVars, pairVars, ppVars, lintVars>>

DatetimeInc == DatetimeStep(Conv(datetime, {0}), 1)
DatetimeDec == DatetimeStep(Conv(datetime, 0..(datetime.bits - 1)), -1)

NextTypes ==
    \/ ColorAdd
    \/ DatetimeAssign
    \/ DatetimeInc
    \/ DatetimeDec

SpecTypes == InitTypes /\ [][NextTypes]_vars

----------------------------------------------------------------------------
\* SpecLint: a linter analyses, in any order, the references the scripts of
\* a corpus make to the header's names.

\* The names the typedefs declare.
TypeAliases == {"datetime", "color"}

\* The parameter types of each function the header declares; "string"
\* stands for const std::string&.
\* Faulty variant: OrderSend declared without its slippage parameter.
Signature_NoSlippage ==
    ("SymbolInfoDouble" :> <<"string", "int">>)
    @@ ("OrderSend" :> <<"string", "int", "double", "double",
                         "double", "double">>)
    @@ ("Print" :> <<"string">>)
    @@ ("GetLastError" :> << >>)
    @@ ("OnInit" :> << >>)
    @@ ("OnDeinit" :> <<"int">>)
    @@ ("OnTick" :> << >>)
Signature ==
    ("SymbolInfoDouble" :> <<"string", "int">>)
    @@ ("OrderSend" :> <<"string", "int", "double", "double",
                         "int", "double", "double">>)
    @@ ("Print" :> <<"string">>)
    @@ ("GetLastError" :> << >>)
    @@ ("OnInit" :> << >>)
    @@ ("OnDeinit" :> <<"int">>)
    @@ ("OnTick" :> << >>)

Declared == TypeAliases \cup MacroNames \cup DOMAIN Signature

\* An argument of type arg initialises a parameter of type param: a string
\* or a string literal binds to const std::string&, and the arithmetic
\* types convert to one another.
Arithmetic == {"bool", "int", "double", "datetime", "color"}
ConvertsTo(arg, param) ==
    IF param = "string" THEN arg \in {"string", "literal"}
    ELSE arg \in Arithmetic

Matches(args, params) ==
    /\ Len(args) = Len(params)
    /\ \A i \in DOMAIN args : ConvertsTo(args[i], params[i])

\* What the linter reports on one reference.
Diagnose(ref) ==
    IF ref.name \notin Declared
      THEN {[name |-> ref.name, what |-> "undefined symbol"]}
    ELSE IF ref.kind = "call" /\ ~Matches(ref.args, Signature[ref.name])
      THEN {[name |-> ref.name, what |-> "no matching overload"]}
    ELSE {}

Name(n) == [kind |-> "name", name |-> n, args |-> << >>]
CallSite(n, args) == [kind |-> "call", name |-> n, args |-> args]

\* The example call OrderSend("EURUSD", OP_BUY, 1.0, price, 3, sl, tp).
ExampleCall ==
    CallSite("OrderSend", <<"literal", "int", "double", "double", "int",
                            "double", "double">>)

\* The references of the scripts under analysis.
Corpus ==
    {ExampleCall,
     CallSite("SymbolInfoDouble", <<"string", "int">>),
     Name("datetime"), Name("color"),
     Name("input"), Name("sinput"), Name("extern"),
     Name("PERIOD_CURRENT"), Name("PERIOD_M1"),
     Name("OP_BUY"), Name("OP_SELL")}

InitLint ==
    /\ linted = {}
    /\ diags = {}
    /\ IdleRun
    /\ IdlePair
    /\ IdlePP
    /\ IdleTypes

LintReference ==
    /\ \E ref \in Corpus \ linted :
         /\ linted' = linted \cup {ref}
         /\ diags' = diags \cup Diagnose(ref)
    /\ UNCHANGED <<runVars, pairVars, ppVars, typeVars>>

NextLint == LintReference

SpecLint == InitLint /\ [][NextLint]_vars

----------------------------------------------------------------------------
\* What the history shows.

CallsOf(fn) == {i \in DOMAIN calls : calls[i].fn = fn}
LastFn == IF calls = << >> THEN "" ELSE calls[Len(calls)].fn
EarlierFns == {calls[i].fn : i \in 1..(Len(calls) - 1)}

\* C1: every OrderSend call a script has made returned true, whatever its
\* seven arguments and whatever calls came before it.
C1_OrderSendReturnsTrue ==
    \A i \in CallsOf("OrderSend") : calls[i].ret = BoolVal(TRUE)

\* The example call OrderSend("EURUSD", OP_BUY, 1.0, price, 3, sl, tp), made
\* after calls to other stubs, has returned true.
C1_Witness ==
    /\ Len(calls) = MaxCalls
    /\ LastFn = "OrderSend"
    /\ "OrderSend" \notin EarlierFns
    /\ lastArgs[1] = "EURUSD" /\ lastArgs[2] = OP_BUY /\ lastArgs[3] = 100000
    /\ lastArgs[4] = 110000 /\ lastArgs[5] = 3
    /\ lastArgs[6] = 109000 /\ lastArgs[7] = 111000
    /\ calls[Len(calls)].ret = BoolVal(TRUE)

\* C2: every SymbolInfoDouble call a script has made returned the double
\* 0.0, whatever the symbol, the prop_id and the calls before it.
C2_SymbolInfoDoubleReturnsZero ==
    \A i \in CallsOf("SymbolInfoDouble") : calls[i].ret = DoubleVal(0)

\* SymbolInfoDouble("GBPUSD", 4) after an OrderSend has returned 0.0.
C2_Witness ==
    /\ LastFn = "SymbolInfoDouble"
    /\ "OrderSend" \in EarlierFns
    /\ lastArgs = <<"GBPUSD", 4>>
    /\ calls[Len(calls)].ret = DoubleVal(0)

\* C3: the members of one enumeration are distinct integers: OP_BUY differs
\* from OP_SELL, PERIOD_CURRENT differs from PERIOD_M1, so a script's
\* variable never holds both members of an enumeration at once.
C3_EnumMembersDistinct ==
    /\ {OP_BUY, OP_SELL, PERIOD_CURRENT, PERIOD_M1} \subseteq Int
    /\ OP_BUY # OP_SELL
    /\ PERIOD_CURRENT # PERIOD_M1
    /\ ~(script.tf = PERIOD_CURRENT /\ script.tf = PERIOD_M1)
    /\ LastFn = "OrderSend" => ~(lastArgs[2] = OP_BUY /\ lastArgs[2] = OP_SELL)

\* A script on the M1 timeframe has sent a sell order: neither tag is the
\* other member of its enumeration.
C3_Witness ==
    /\ LastFn = "OrderSend"
    /\ lastArgs[2] = OP_SELL /\ lastArgs[2] # OP_BUY
    /\ script.tf = PERIOD_M1 /\ script.tf # PERIOD_CURRENT

\* C4: no stub call changes an object of the script: every step, which is a
\* call of one of the seven stubs, leaves the script's objects as they were.
C4_NoSideEffect ==
    [][script' = script]_vars

\* A script has called Print(msg) and OrderSend(symbol, ...) and still holds
\* the strings it passed.
C4_Witness ==
    /\ Len(calls) = MaxCalls
    /\ {"Print", "OrderSend"} \subseteq {calls[i].fn : i \in DOMAIN calls}
    /\ script.msg = "tick"
    /\ script.symbol = "GBPUSD"

\* C5: every GetLastError call and every OnInit call a script has made
\* returned the int 0, whatever calls came before it.
C5_NoErrorReported ==
    /\ \A i \in CallsOf("GetLastError") : calls[i].ret = IntVal(0)
    /\ \A i \in CallsOf("OnInit") : calls[i].ret = IntVal(0)

\* GetLastError called right after an OrderSend and an OnInit has returned 0.
C5_Witness ==
    /\ LastFn = "GetLastError"
    /\ {"OrderSend", "OnInit"} \subseteq EarlierFns
    /\ calls[Len(calls)].ret = IntVal(0)

\* C10: the constants alias across enumerations: PERIOD_CURRENT and OP_BUY
\* are both 0, PERIOD_M1 and OP_SELL are both 1, and the four constants take
\* exactly the values 0 and 1.
C10_AliasAcrossEnums ==
    /\ PERIOD_CURRENT = 0 /\ OP_BUY = 0
    /\ PERIOD_M1 = 1 /\ OP_SELL = 1
    /\ {PERIOD_CURRENT, PERIOD_M1, OP_BUY, OP_SELL} = {0, 1}
    /\ script.tf \in {OP_BUY, OP_SELL}
    /\ LastFn = "OrderSend" => lastArgs[2] \in {PERIOD_CURRENT, PERIOD_M1}

\* A script on the M1 timeframe has sent a sell order: its timeframe and the
\* order direction it passed are the same integer.
C10_Witness ==
    /\ LastFn = "OrderSend"
    /\ lastArgs[2] = OP_SELL
    /\ script.tf = PERIOD_M1
    /\ script.tf = lastArgs[2]

\* C9: two runs that issue the same stub names observe the same return
\* values call by call, whatever arguments each run passes, and within a run
\* a stub returns the same value at every position of the history.
C9_ReturnsIndependentOfArgs ==
    /\ \A i \in DOMAIN names : retsA[i] = retsB[i]
    /\ \A i, j \in DOMAIN names :
         names[i] = names[j] => retsA[i] = retsA[j] /\ retsB[i] = retsB[j]

\* Both runs called OrderSend and then SymbolInfoDouble, each call with
\* different arguments in the two runs, and saw the same returns.
C9_Witness ==
    /\ Len(names) = MaxPairCalls
    /\ names[Len(names) - 1] = "OrderSend" /\ differed[Len(names) - 1]
    /\ names[Len(names)] = "SymbolInfoDouble" /\ differed[Len(names)]
    /\ retsA = retsB
    /\ retsA[Len(names)] = DoubleVal(0)

Count(q, tok) == Cardinality({i \in DOMAIN q : q[i] = tok})
IsStorageClass(tok) == tok \in {"input", "sinput", "extern"}
NotStorageClass(tok) == ~IsStorageClass(tok)
NotStatic(tok) == tok # "static"
Kept(tok) == NotStorageClass(tok) /\ NotStatic(tok)
ConstantsReplaced(q) ==
    [i \in DOMAIN q |-> IF q[i] = "OP_SELL" THEN "1" ELSE q[i]]

\* C8: after preprocessing no storage-class keyword of MQL5 is left: every
\* input and every extern is gone without a trace, every sinput has become
\* static, and the other tokens stand in their order.
C8_StorageClassesReplaced ==
    ppc = "expanded" =>
      /\ \A i \in DOMAIN expanded : NotStorageClass(expanded[i])
      /\ Len(expanded) = Len(source) - Count(source, "input")
                                     - Count(source, "extern")
      /\ Count(expanded, "static") = Count(source, "static")
                                     + Count(source, "sinput")
      /\ SelectSeq(expanded, NotStatic)
           = ConstantsReplaced(SelectSeq(source, Kept))
      /\ source = <<"input">> => expanded = << >>
      /\ source = <<"extern">> => expanded = << >>
      /\ source = <<"sinput">> => expanded = <<"static">>

\* The line "sinput extern int" has been preprocessed to "static int".
C8_Witness ==
    /\ ppc = "expanded"
    /\ source = <<"sinput", "extern", "int">>
    /\ expanded = <<"static", "int">>

\* The value of the 16 bits of a from bit base + 1 on.
RECURSIVE HalfOfBits(_, _, _)
HalfOfBits(a, base, j) ==
    IF j = 16 THEN 0
    ELSE a[base + j + 1] * 2^j + HalfOfBits(a, base, j + 1)

\* The value dtRef stands for lies in -2^63 .. 2^63 - 1.
DtInRange ==
    /\ dtRef.base = "max" => dtRef.off <= 0
    /\ dtRef.base = "min" => dtRef.off >= 0
DtBelowZero ==
    \/ dtRef.base = "min"
    \/ dtRef.base = "zero" /\ dtRef.off < 0
DtLow16 ==
    ((IF dtRef.base = "max" THEN 2^16 - 1 ELSE 0) + dtRef.off) % 2^16
DtUpperBit ==
    CASE dtRef.base = "zero" -> IF dtRef.off < 0 THEN 1 ELSE 0
      [] dtRef.base = "max" -> 1
      [] dtRef.base = "min" -> 0

\* C7: color is an unsigned 32-bit integer: a color variable holds 32 bits,
\* is never negative, and its sums are the true sums modulo 2^32.  datetime
\* is a signed 64-bit integer: a datetime variable holds 64 bits in two's
\* complement, is negative exactly when its value is below zero, holds every
\* value from -2^63 to 2^63 - 1, and overflows exactly beyond them.
C7_FixedWidthAliases ==
    /\ DOMAIN clr = 1..32
    /\ DOMAIN dt = 1..64
    /\ \A i \in DOMAIN clr : clr[i] \in {0, 1}
    /\ \A i \in DOMAIN dt : dt[i] \in {0, 1}
    /\ ~IsNegative(color, clr)
    /\ HalfOfBits(clr, 0, 0) = clrRef.lo
    /\ HalfOfBits(clr, 16, 0) = clrRef.hi
    /\ tpc = "run" <=> DtInRange
    /\ tpc = "run" =>
         /\ IsNegative(datetime, dt) <=> DtBelowZero
         /\ HalfOfBits(dt, 0, 0) = DtLow16
         /\ \A i \in 17..63 : dt[i] = DtUpperBit
         /\ dt[64] = IF DtBelowZero THEN 1 ELSE 0

\* A script has wrapped its color past 2^32 - 1 back to 0 and has brought
\* its datetime to INT64_MAX - 1.
C7_Witness ==
    /\ tpc = "run"
    /\ ops = MaxOps
    /\ clr = Conv(color, {})
    /\ clrRef = [hi |-> 0, lo |-> 0]
    /\ dtRef = [base |-> "max", off |-> -1]
    /\ dt = Conv(datetime, 1..62)

=============================================================================
